---- MODULE Spec2Model ----
(***************************************************************************)
(* Cutebot BLE UART command engine.                                        *)
(*                                                                         *)
(*   Profile C  src/main.ts            timed GO + tracking telemetry       *)
(*   Profile B  src/unnamed/part_000   immediate exec, ECHO + ACK replies  *)
(*                                                                         *)
(* Text is a sequence of one-character strings, so that sanitize, trim,    *)
(* split, parseInt and parseHexByte are computed character by character    *)
(* as the source computes them.  Time is in milliseconds.                  *)
(***************************************************************************)
EXTENDS Integers, Sequences, FiniteSets, TLC

VARIABLES
    profile,        \* "B" or "C": which program the device runs
    now,            \* input.runningTime(), ms
    pinR, pinL,     \* levels of the line sensors on P13 / P14 (active-low)
    frame,          \* raw text last returned by bluetooth.uartReadUntil(DELIM)
    cmd,            \* the Cmd parseLine made of it (ok = FALSE: null)
    hpc, hWake,     \* UART handler fiber: position, time it resumes
    hOut,           \* lines the current / last handler invocation wrote
    hCalls,         \* actuator calls the current / last handler invocation made
    tpc, tWake,     \* GO timer poll fiber: position, time it resumes
    tOut,           \* lines the latest poll callback wrote
    mpc, mWake,     \* main fiber (startup sequence): position, time it resumes
    bootOut,        \* lines the startup sequence wrote, while the main fiber lives
    motors,         \* <<left, right>> last commanded to the drive motors
    goTimerActive,  \* main.ts:52
    goEndTime,      \* main.ts:53
    goPhase,        \* history: fate of the most recently started GO
    hexIn, hexOut,  \* a byte or text handed to hex2 / parseHexByte, the result
    disp,           \* queued dispatch: the dispatcher's queue and busy flag
    audit           \* queued dispatch, history: what became of each submission

vars == <<profile, now, pinR, pinL, frame, cmd, hpc, hWake, hOut, hCalls,
          tpc, tWake, tOut, mpc, mWake, bootOut, motors, goTimerActive,
          goEndTime, goPhase, hexIn, hexOut, disp, audit>>

-----------------------------------------------------------------------------
(* Characters *)

\* The printable ASCII characters, code 32 first (code 96 is spelled out: the
\* back quote cannot stand in a string here, and no frame of the model uses it).
Printable ==
    << " ", "!", "\"", "#", "$", "%", "&", "'", "(", ")", "*", "+", ",", "-", ".", "/",
       "0", "1", "2", "3", "4", "5", "6", "7", "8", "9", ":", ";", "<", "=", ">", "?",
       "@", "A", "B", "C", "D", "E", "F", "G", "H", "I", "J", "K", "L", "M", "N", "O",
       "P", "Q", "R", "S", "T", "U", "V", "W", "X", "Y", "Z", "[", "\\", "]", "^", "_",
       "bquote", "a", "b", "c", "d", "e", "f", "g", "h", "i", "j", "k", "l", "m", "n", "o",
       "p", "q", "r", "s", "t", "u", "v", "w", "x", "y", "z", "{", "|", "}", "~" >>

\* String.charCodeAt for one character.
charCode(ch) ==
    IF ch = "\t" THEN 9
    ELSE IF ch = "\n" THEN 10
    ELSE IF ch = "\r" THEN 13
    ELSE 31 + (CHOOSE i \in 1..Len(Printable) : Printable[i] = ch)

\* String.toUpperCase, one character then a whole string.
upperChar(ch) ==
    LET c == charCode(ch)
    IN  IF c >= 97 /\ c <= 122 THEN Printable[c - 32 - 31] ELSE ch

toUpperCase(s) == [i \in 1..Len(s) |-> upperChar(s[i])]

\* White space as String.trim sees it.
isSpace(ch) == ch \in {" ", "\t", "\n", "\r"}

\* String.trim.
trim(s) ==
    LET keep == {i \in 1..Len(s) : ~isSpace(s[i])}
    IN  IF keep = {} THEN <<>>
        ELSE LET lo == CHOOSE i \in keep : \A j \in keep : i <= j
                 hi == CHOOSE i \in keep : \A j \in keep : j <= i
             IN  SubSeq(s, lo, hi)

\* String.split(",").
RECURSIVE splitFrom(_, _, _)
splitFrom(s, i, acc) ==
    IF i > Len(s) THEN <<acc>>
    ELSE IF s[i] = "," THEN <<acc>> \o splitFrom(s, i + 1, <<>>)
    ELSE splitFrom(s, i + 1, Append(acc, s[i]))

split(s) == splitFrom(s, 1, <<>>)

\* Value of a hex digit, -1 for any other character (upper case only, as in
\* parseHexByte; parseInt upper-cases first).
hexDigit(ch) ==
    LET c == charCode(ch)
    IN  IF c >= 48 /\ c <= 57 THEN c - 48
        ELSE IF c >= 65 /\ c <= 70 THEN c - 55
        ELSE -1

\* x & 0xFF for an integer of either sign.
and255(x) == x % 256

-----------------------------------------------------------------------------
(* Parsing: main.ts 110-160, part_000 45-117 *)

\* Cmd (main.ts:56-62), with ok = FALSE standing for the null parseLine returns.
Cmd(s, o, a, b, c) == [ok |-> TRUE, s |-> s, o |-> o, a |-> a, b |-> b, c |-> c]
Null == [ok |-> FALSE, s |-> 0, o |-> <<>>, a |-> 0, b |-> 0, c |-> 0]

\* parseHexByte: up to two hex characters of the trimmed, upper-cased text,
\* stopping at the first character that is no hex digit.
parseHexByte(s) ==
    LET t  == toUpperCase(trim(s))
        d1 == IF Len(t) >= 1 THEN hexDigit(t[1]) ELSE -1
        d2 == IF Len(t) >= 2 THEN hexDigit(t[2]) ELSE -1
        v  == IF d1 < 0 THEN 0
              ELSE IF d2 < 0 THEN d1
              ELSE d1 * 16 + d2
    IN  and255(v)

\* sanitize: drop control characters and ';', then trim.
sanitize(raw) ==
    trim(SelectSeq(raw, LAMBDA ch : charCode(ch) >= 32 /\ ch # ";"))

\* The hex digits parseInt reads from position i on: <<value, how many>>.
RECURSIVE hexRun(_, _, _, _)
hexRun(s, i, v, n) ==
    IF i > Len(s) \/ hexDigit(upperChar(s[i])) < 0 THEN <<v, n>>
    ELSE hexRun(s, i + 1, v * 16 + hexDigit(upperChar(s[i])), n + 1)

\* parseInt(text, 16): leading white space, a sign and a 0x prefix are skipped,
\* then the longest run of hex digits is read; NaN when that run is empty.
parseInt16(text) ==
    LET ws   == {i \in 1..Len(text) : ~isSpace(text[i])}
        i0   == IF ws = {} THEN Len(text) + 1
                ELSE CHOOSE i \in ws : \A j \in ws : i <= j
        neg  == i0 <= Len(text) /\ text[i0] = "-"
        i1   == IF i0 <= Len(text) /\ text[i0] \in {"-", "+"} THEN i0 + 1 ELSE i0
        i2   == IF i1 + 1 <= Len(text) /\ text[i1] = "0" /\ text[i1 + 1] \in {"x", "X"}
                THEN i1 + 2 ELSE i1
        run  == hexRun(text, i2, 0, 0)
    IN  [nan |-> run[2] = 0, v |-> IF neg THEN 0 - run[1] ELSE run[1]]

\* The sequence number parseLine reads from field 0 (main.ts:149-154).
seqNumOf(seqHex) ==
    IF Len(seqHex) > 0 /\ ~parseInt16(seqHex).nan
    THEN and255(parseInt16(seqHex).v)
    ELSE 0

\* The text parseLine splits: the sanitized line less one leading ';'.
stripLead(clean) ==
    IF Len(clean) > 0 /\ clean[1] = ";" THEN SubSeq(clean, 2, Len(clean)) ELSE clean

\* Argument k (2..4) of the split line, 0 when the field is missing.
argOf(parts, k) == IF Len(parts) > k THEN parseHexByte(parts[k + 1]) ELSE 0

\* Profile C parseLine (main.ts:141-160).
parseLine(line) ==
    LET clean == sanitize(line)
        parts == split(stripLead(clean))
    IN  IF Len(clean) < 2 THEN Null
        ELSE IF Len(parts) < 2 THEN Null
        ELSE Cmd(seqNumOf(parts[1]), toUpperCase(trim(parts[2])),
                 argOf(parts, 2), argOf(parts, 3), argOf(parts, 4))

\* Profile B parseLine as it would read with "parts.length < 3".
parseLineBThreeFields(line) ==
    LET clean == sanitize(line)
        parts == split(stripLead(clean))
    IN  IF Len(clean) < 2 THEN Null
        ELSE IF Len(parts) < 3 THEN Null
        ELSE IF toUpperCase(trim(parts[2])) = <<>> THEN Null
        ELSE Cmd(seqNumOf(parts[1]), toUpperCase(trim(parts[2])),
                 argOf(parts, 2), argOf(parts, 3), argOf(parts, 4))

\* Profile B parseLine (part_000:98-117): as above, and an empty opcode is null.
parseLineB(line) ==
    LET clean == sanitize(line)
        parts == split(stripLead(clean))
    IN  IF Len(clean) < 2 THEN Null
        ELSE IF Len(parts) < 2 THEN Null
        ELSE IF toUpperCase(trim(parts[2])) = <<>> THEN Null
        ELSE Cmd(seqNumOf(parts[1]), toUpperCase(trim(parts[2])),
                 argOf(parts, 2), argOf(parts, 3), argOf(parts, 4))

\* The opcodes of each profile.
OpsB == { <<"M","V">>, <<"B","K">>, <<"T","L">>, <<"T","R">>, <<"S","P">>,
          <<"H","L">>, <<"B","Z">>, <<"E","C">> }
OpsC == OpsB \cup { <<"G","O">> }

UnknownOp == <<"?","?">>

\* Profile B guessOp (part_000:86-97).
guessOp(raw) ==
    LET clean == sanitize(raw)
        parts == split(stripLead(clean))
        op    == toUpperCase(trim(parts[2]))
    IN  IF clean = <<>> THEN UnknownOp
        ELSE IF Len(parts) < 2 THEN UnknownOp
        ELSE IF op \in OpsB THEN op
        ELSE UnknownOp

\* hex2 (part_000:45-49).
HexDigits == <<"0","1","2","3","4","5","6","7","8","9","A","B","C","D","E","F">>

\* hex2 as it would read with the two digits in the wrong order.
hex2LowFirst(n) ==
    LET m == and255(n)
    IN  << HexDigits[(m % 16) + 1], HexDigits[((m \div 16) % 16) + 1] >>

hex2(n) ==
    LET m == and255(n)
    IN  << HexDigits[((m \div 16) % 16) + 1], HexDigits[(m % 16) + 1] >>

-----------------------------------------------------------------------------
(* Bounds and program constants *)

TICK_MS == 100      \* loops.everyInterval(100, ...)
PAUSE_MS == 150     \* basic.pause(150) in showStopBrief
FREQ_MIN == 100     \* Math.max(100, ...)
FREQ_MAX == 5000    \* Math.min(5000, ...)
DUR_DEFAULT == 100  \* if (dur <= 0) dur = 100

MaxTime == 400      \* the clock stops here
MaxFrameLen == 3    \* Profile B is fed every text up to this length
MaxArgLen == 3      \* parseHexByte is fed every text up to this length
MaxSubmit == 9      \* the queued dispatcher is handed this many commands

\* The clock is observed every half tick interval, and at every wake-up.
TimeStep == TICK_MS \div 2

Min(a, b) == IF a <= b THEN a ELSE b

\* basic.showIcon and basic.showArrow are blocking display calls: the caller may
\* be resumed at once or kept suspended; the model keeps it for 0 or TimeStep ms.
ShowDelays == {0, TimeStep}

\* showStopBrief (main.ts:74-78): showIcon, pause(150), showWait.  It touches no
\* program state, so its three blocking calls are one suspension.
StopBriefDelays == {d1 + PAUSE_MS + d2 : d1 \in ShowDelays, d2 \in ShowDelays}

-----------------------------------------------------------------------------
(* Lines written to the transport *)

NL == <<"\n">>
Digits == <<"0","1","2","3","4","5","6","7","8","9">>

\* readTracking (main.ts:89-93) on the two pin levels.
readTracking(r, l) ==
    LET rActive == IF r = 0 THEN 1 ELSE 0
        lActive == IF l = 0 THEN 1 ELSE 0
    IN  (IF rActive = 1 THEN 1 ELSE 0) + (IF lActive = 1 THEN 2 ELSE 0)

\* The line sendTracking writes (main.ts:96-99).
TrkLine(t) == <<"#","T","R","K",",">> \o <<Digits[t + 1]>> \o NL

\* The line sendError writes (main.ts:102-104).
ErrorLine(code) == <<"#","E","R","R","O","R",",">> \o code \o NL

PARSE_FAIL == <<"P","A","R","S","E","_","F","A","I","L">>
GO_INVALID_ARGS == <<"G","O","_","I","N","V","A","L","I","D","_","A","R","G","S">>
UNKNOWN_OP_ == <<"U","N","K","N","O","W","N","_","O","P","_">>

-----------------------------------------------------------------------------
(* Actuator *)

\* One call on the actuator capability, as the handler made it.
Call(fn, dir, x, y) == [fn |-> fn, dir |-> dir, x |-> x, y |-> y]

\* What cuteBot.moveTime commands the motors to while it runs.  The signs are the
\* platform library's; only zero / non-zero is read below.
MoveMotors(dir, speed) ==
    CASE dir = "forward"  -> <<speed, speed>>
      [] dir = "backward" -> <<0 - speed, 0 - speed>>
      [] dir = "left"     -> <<0 - speed, speed>>
      [] dir = "right"    -> <<speed, 0 - speed>>

Stopped == <<0, 0>>

\* Direction of a move opcode (main.ts:181-207).
DirOf(o) ==
    CASE o = <<"M","V">> -> "forward"
      [] o = <<"B","K">> -> "backward"
      [] o = <<"T","L">> -> "left"
      [] o = <<"T","R">> -> "right"

MoveOps == { <<"M","V">>, <<"B","K">>, <<"T","L">>, <<"T","R">> }

\* HL's colour (main.ts:226-236).
HlColor(c) ==
    IF c.b > 0 \/ c.c > 0
    THEN and255(c.a) * 65536 + and255(c.b) * 256 + and255(c.c)
    ELSE IF c.a # 0 THEN 16777215 ELSE 0

\* BZ's tone (main.ts:238-245).
BzFreqRaw(c) == and255(c.a) * 256 + and255(c.b)
BzFreq(c) ==
    LET freq == BzFreqRaw(c)
        lo   == IF freq < FREQ_MAX THEN freq ELSE FREQ_MAX
    IN  IF lo > FREQ_MIN THEN lo ELSE FREQ_MIN
\* BZ's duration as it would read without "if (dur <= 0) dur = 100".
BzDurNoDefault(c) == and255(c.c) * 10

BzDur(c) ==
    LET dur == and255(c.c) * 10
    IN  IF dur <= 0 THEN DUR_DEFAULT ELSE dur

\* GO's argument check as it would read had the duration been forgotten.
GoInvalidSpeedOnly(c) == c.a = 0

\* GO's argument check (main.ts:215).
GoInvalid(c) == c.a = 0 \/ c.b = 0

-----------------------------------------------------------------------------
(* Profile C: the UART handler fiber (main.ts:281-292) and runNow (179-254).  *)
(* A fiber runs from one blocking call to the next without interruption; the  *)
(* handler is not re-entered while it runs (later frames wait in the UART      *)
(* buffer).  goPhase records what became of the latest GO:                    *)
(*   "active"     its motors(a, a) is still the last motor command             *)
(*   "cancelled"  an SP cleared its timer                                      *)
(*   "expired"    the poll stopped it; "cancelled_expired" after a cancel      *)
(*   "stopped"    any other motor command replaced it                          *)

hstate == <<frame, cmd, hpc, hWake, hOut, hCalls>>
tstate == <<tpc, tWake, tOut>>
timer  == <<goTimerActive, goEndTime>>
mstate == <<mpc, mWake, bootOut>>
env    == <<profile, pinR, pinL, mstate, hexIn, hexOut, disp, audit>>

\* runNow and the handler return.
Return == hpc' = "done" /\ hWake' = now

\* hardStop as it would read without "goTimerActive = false".
hardStopKeepsTimer ==
    /\ motors' = Stopped
    /\ UNCHANGED <<goTimerActive, goEndTime>>

\* hardStop (main.ts:163-168) up to the suspension inside showStopBrief.
hardStop ==
    /\ motors' = Stopped
    /\ goTimerActive' = FALSE
    /\ goEndTime' = goEndTime

\* What a motor command other than GO's makes of the latest GO.
Replaced(phase) == IF phase = "active" THEN "stopped" ELSE phase

\* MV, BK, TL, TR: showArrow suspends the handler before cuteBot.moveTime.
RunMove(c) ==
    /\ \E d \in ShowDelays : hWake' = now + d
    /\ hpc' = "arrow"
    /\ hOut' = <<>> /\ hCalls' = <<>>
    /\ UNCHANGED <<motors, timer, goPhase>>

\* SP: hardStop, then (after showStopBrief) sendTracking.
RunStop(c) ==
    /\ hardStop
    /\ goPhase' = IF goTimerActive THEN "cancelled" ELSE Replaced(goPhase)
    /\ \E d \in StopBriefDelays : hWake' = now + d
    /\ hpc' = "stopbrief"
    /\ hOut' = <<>>
    /\ hCalls' = <<Call("motors", "", 0, 0), Call("stopcar", "", 0, 0)>>

\* GO with a zero argument: hardStop, then sendError.
RunGoInvalid(c) ==
    /\ hardStop
    /\ goPhase' = Replaced(goPhase)
    /\ \E d \in StopBriefDelays : hWake' = now + d
    /\ hpc' = "stopbrief"
    /\ hOut' = <<>>
    /\ hCalls' = <<Call("motors", "", 0, 0), Call("stopcar", "", 0, 0)>>

\* GO: showArrow suspends the handler before the motors start.
RunGo(c) ==
    /\ \E d \in ShowDelays : hWake' = now + d
    /\ hpc' = "goarrow"
    /\ hOut' = <<>> /\ hCalls' = <<>>
    /\ UNCHANGED <<motors, timer, goPhase>>

RunHL(c) ==
    /\ hCalls' = <<Call("colorLight", "", HlColor(c), 0)>>
    /\ hOut' = <<>>
    /\ Return
    /\ UNCHANGED <<motors, timer, goPhase>>

\* BZ: music.playTone blocks for the tone's duration.
RunBZ(c) ==
    /\ hCalls' = <<Call("playTone", "", BzFreq(c), BzDur(c))>>
    /\ hOut' = <<>>
    /\ hpc' = "tone"
    /\ hWake' = now + BzDur(c)
    /\ UNCHANGED <<motors, timer, goPhase>>

\* EC as it would read if the echo opcode answered.
RunECEcho(c) ==
    /\ hOut' = << <<"#","E","C","H","O">> \o NL >>
    /\ hCalls' = <<>>
    /\ Return
    /\ UNCHANGED <<motors, timer, goPhase>>

RunEC(c) ==
    /\ hOut' = <<>> /\ hCalls' = <<>>
    /\ Return
    /\ UNCHANGED <<motors, timer, goPhase>>

\* The default branch as it would read with the opcode text left out.
RunDefaultNoOpText(c) ==
    /\ hOut' = <<ErrorLine(UNKNOWN_OP_)>>
    /\ hCalls' = <<>>
    /\ Return
    /\ UNCHANGED <<motors, timer, goPhase>>

RunDefault(c) ==
    /\ hOut' = <<ErrorLine(UNKNOWN_OP_ \o c.o)>>
    /\ hCalls' = <<>>
    /\ Return
    /\ UNCHANGED <<motors, timer, goPhase>>

\* runNow (main.ts:179-254) up to its first suspension.
runNow(c) ==
    CASE c.o \in MoveOps    -> RunMove(c)
      [] c.o = <<"S","P">>  -> RunStop(c)
      [] c.o = <<"G","O">>  -> IF GoInvalid(c) THEN RunGoInvalid(c) ELSE RunGo(c)
      [] c.o = <<"H","L">>  -> RunHL(c)
      [] c.o = <<"B","Z">>  -> RunBZ(c)
      [] c.o = <<"E","C">>  -> RunEC(c)
      [] OTHER              -> RunDefault(c)

\* The frame is empty after trimming (main.ts:283-284).
IsEmptyFrame(raw) == Len(trim(raw)) = 0

\* The handler's answer to a frame parseLine rejects (main.ts:287-290).
ParseFail ==
    /\ hOut' = <<ErrorLine(PARSE_FAIL)>>
    /\ hCalls' = <<>>
    /\ Return
    /\ UNCHANGED <<motors, timer, goPhase>>

\* The empty-frame branch as it would read without the "trimmed.length == 0"
\* return: the frame goes on to parseLine, which rejects it.
DropFrameUnchecked == ParseFail

\* The handler's answer to an empty frame (main.ts:284).
DropFrame ==
    /\ hOut' = <<>> /\ hCalls' = <<>>
    /\ Return
    /\ UNCHANGED <<motors, timer, goPhase>>

\* bluetooth.onUartDataReceived (main.ts:281-292), up to the first suspension.
OnUartC(raw) ==
    /\ profile = "C"
    /\ hpc = "idle"
    /\ frame' = raw
    /\ LET c == parseLine(raw)
       IN  IF IsEmptyFrame(raw) THEN cmd' = Null /\ DropFrame
           ELSE /\ cmd' = c
                /\ IF ~c.ok THEN ParseFail ELSE runNow(c)
    /\ UNCHANGED <<now, env, tstate>>

\* showArrow returned: cuteBot.moveTime starts the motors and pauses.
ResumeArrow ==
    /\ profile = "C" /\ hpc = "arrow" /\ now >= hWake
    /\ hCalls' = Append(hCalls, Call("moveTime", DirOf(cmd.o), cmd.a, cmd.b))
    /\ motors' = MoveMotors(DirOf(cmd.o), cmd.a)
    /\ goPhase' = Replaced(goPhase)
    /\ hpc' = "moving"
    /\ hWake' = now + cmd.b
    /\ UNCHANGED <<now, env, tstate, frame, cmd, hOut, timer>>

\* The end of moveTime as it would read if stopping the motors cleared the timer.
ResumeMovingClearsTimer ==
    /\ profile = "C" /\ hpc = "moving" /\ now >= hWake
    /\ motors' = Stopped
    /\ goTimerActive' = FALSE
    /\ goPhase' = Replaced(goPhase)
    /\ hpc' = "waiticon"
    /\ \E d \in ShowDelays : hWake' = now + d
    /\ UNCHANGED <<now, env, tstate, frame, cmd, hOut, hCalls, goEndTime>>

\* moveTime's pause ended: it stops the motors and returns; showWait suspends.
ResumeMoving ==
    /\ profile = "C" /\ hpc = "moving" /\ now >= hWake
    /\ motors' = Stopped
    /\ goPhase' = Replaced(goPhase)
    /\ hpc' = "waiticon"
    /\ \E d \in ShowDelays : hWake' = now + d
    /\ UNCHANGED <<now, env, tstate, frame, cmd, hOut, hCalls, timer>>

\* The end of a move as it would read without sendTracking.
ResumeWaitIconSilent ==
    /\ profile = "C" /\ hpc = "waiticon" /\ now >= hWake
    /\ Return
    /\ UNCHANGED <<now, env, tstate, frame, cmd, hOut, hCalls, motors, timer, goPhase>>

\* showWait returned: sendTracking, and the move command is done.
ResumeWaitIcon ==
    /\ profile = "C" /\ hpc = "waiticon" /\ now >= hWake
    /\ hOut' = Append(hOut, TrkLine(readTracking(pinR, pinL)))
    /\ Return
    /\ UNCHANGED <<now, env, tstate, frame, cmd, hCalls, motors, timer, goPhase>>

\* showStopBrief returned inside SP or an invalid GO.
ResumeStopBrief ==
    /\ profile = "C" /\ hpc = "stopbrief" /\ now >= hWake
    /\ hOut' = IF cmd.o = <<"S","P">>
               THEN Append(hOut, TrkLine(readTracking(pinR, pinL)))
               ELSE Append(hOut, ErrorLine(GO_INVALID_ARGS))
    /\ Return
    /\ UNCHANGED <<now, env, tstate, frame, cmd, hCalls, motors, timer, goPhase>>

\* showArrow returned inside a valid GO: start the motors, arm the timer.
ResumeGoArrow ==
    /\ profile = "C" /\ hpc = "goarrow" /\ now >= hWake
    /\ hCalls' = Append(hCalls, Call("motors", "", cmd.a, cmd.a))
    /\ motors' = <<cmd.a, cmd.a>>
    /\ goTimerActive' = TRUE
    /\ goEndTime' = now + cmd.b
    /\ goPhase' = "active"
    /\ Return
    /\ UNCHANGED <<now, env, tstate, frame, cmd, hOut>>

\* playTone returned.
ResumeTone ==
    /\ profile = "C" /\ hpc = "tone" /\ now >= hWake
    /\ Return
    /\ UNCHANGED <<now, env, tstate, frame, cmd, hOut, hCalls, motors, timer, goPhase>>

\* The handler's fiber ends; the next frame, if any, starts a new one.
HandlerExit ==
    /\ hpc = "done"
    /\ hpc' = "idle" /\ hWake' = 0
    /\ frame' = <<>> /\ cmd' = Null
    /\ hOut' = <<>> /\ hCalls' = <<>>
    /\ UNCHANGED <<now, env, tstate, motors, timer, goPhase>>

-----------------------------------------------------------------------------
(* Profile C: the GO timer poll (main.ts:264-270) *)

\* The poll's condition.
Expired == goTimerActive /\ now >= goEndTime

\* The callback runs: nothing to do, or hardStop up to its suspension.
TickPoll ==
    /\ profile = "C" /\ tpc = "sleep" /\ now >= tWake
    /\ IF Expired
       THEN /\ hardStop
            /\ goPhase' = IF goPhase = "cancelled" THEN "cancelled_expired" ELSE "expired"
            /\ tpc' = "stopbrief"
            /\ \E d \in StopBriefDelays : tWake' = now + d
            /\ tOut' = <<>>
       ELSE /\ tWake' = now + TICK_MS
            /\ tOut' = <<>>
            /\ UNCHANGED <<tpc, motors, timer, goPhase>>
    /\ UNCHANGED <<now, env, hstate>>

\* hardStop returned: sendTracking, clear the timer, sleep until the next poll.
TickResume ==
    /\ profile = "C" /\ tpc = "stopbrief" /\ now >= tWake
    /\ tOut' = Append(tOut, TrkLine(readTracking(pinR, pinL)))
    /\ goTimerActive' = FALSE
    /\ tpc' = "sleep"
    /\ tWake' = now + TICK_MS
    /\ UNCHANGED <<now, env, hstate, motors, goEndTime, goPhase>>

\* Time passes while no fiber is ready to run, up to the next wake-up.
Advance ==
    /\ profile = "C"
    /\ now < MaxTime
    /\ tWake > now
    /\ hpc = "idle" \/ (hpc # "done" /\ hWake > now)
    /\ mpc = "ended" \/ (mpc = "showwait" /\ mWake > now)
    /\ now' = Min(Min(now + TimeStep, MaxTime),
                  Min(Min(tWake, IF hpc = "idle" THEN tWake ELSE hWake),
                      IF mpc = "showwait" THEN mWake ELSE tWake))
    /\ UNCHANGED <<env, hstate, tstate, motors, timer, goPhase>>

-----------------------------------------------------------------------------
(* Profile C: the startup sequence (main.ts:298-299) and the line sensors.   *)
(* The handler and the poll are registered before showWait() blocks the main *)
(* fiber, so both may run before the startup #TRK is written.                *)

\* showWait returned: sendTracking, and the program's top level is done.
BootResume ==
    /\ profile = "C" /\ mpc = "showwait" /\ now >= mWake
    /\ bootOut' = <<TrkLine(readTracking(pinR, pinL))>>
    /\ mpc' = "done" /\ mWake' = now
    /\ UNCHANGED <<now, profile, pinR, pinL, hexIn, hexOut, disp, audit,
                   hstate, tstate, motors, timer, goPhase>>

\* The main fiber ends.
MainExit ==
    /\ mpc = "done"
    /\ mpc' = "ended" /\ mWake' = 0 /\ bootOut' = <<>>
    /\ UNCHANGED <<now, profile, pinR, pinL, hexIn, hexOut, disp, audit,
                   hstate, tstate, motors, timer, goPhase>>

\* The robot moves on or off the line: pins P13 / P14 change level
\* (read anew by every readTracking, main.ts:90-91).
SensorChange ==
    /\ profile = "C"
    /\ \E r \in {0, 1}, l \in {0, 1} :
          /\ <<r, l>> # <<pinR, pinL>>
          /\ pinR' = r /\ pinL' = l
    /\ UNCHANGED <<now, profile, mstate, hexIn, hexOut, disp, audit,
                   hstate, tstate, motors, timer, goPhase>>

-----------------------------------------------------------------------------
(* Profile B: part_000.  No timer and no poll: the handler is the only fiber  *)
(* that acts; it is suspended in the same blocking calls as Profile C's.      *)

\* "#ECHO," + raw + "\n" (part_000:189).
EchoLine(raw) == <<"#","E","C","H","O",",">> \o raw \o NL

\* sendAckWithOp as it would read without the opcode echo.
sendAckPlain(seq, opEcho) ==
    <<";">> \o hex2(seq) \o <<",","A","C","K">> \o <<";">> \o NL

\* sendAckWithOp (part_000:65).
sendAckWithOp(seq, opEcho) ==
    <<";">> \o hex2(seq) \o <<",","A","C","K",",">> \o opEcho \o <<";">> \o NL

\* sendErr (part_000:66).
sendErr(seq, ec) ==
    <<";">> \o hex2(seq) \o <<",","E","R","R",",">> \o hex2(ec) \o <<";">> \o NL

\* "#LED," + rr + gg + bb + "\n" (part_000:160-163).
LedLine(color) ==
    <<"#","L","E","D",",">> \o hex2((color \div 65536) % 256)
        \o hex2((color \div 256) % 256) \o hex2(color % 256) \o NL

BuzLine == <<"#","B","U","Z",",","d","o","n","e">> \o NL

ERR_UNKNOWN == 1    \* sendErr(cmd.s, 0x01)

\* The lines runNow writes (part_000:120-184).
runNowBOut(c) ==
    CASE c.o \in MoveOps    -> <<>>
      [] c.o = <<"S","P">>  -> <<>>
      [] c.o = <<"H","L">>  -> <<LedLine(HlColor(c))>>
      [] c.o = <<"B","Z">>  -> <<BuzLine>>
      [] c.o = <<"E","C">>  -> <<>>
      [] OTHER              -> <<sendErr(c.s, ERR_UNKNOWN)>>

\* The opcode echoed in the ACK of a parsed command (part_000:193).
AckOp(c) == IF c.o # <<>> THEN c.o ELSE UnknownOp

\* The reply to a frame parseLine rejects (part_000:191).
ParseFailAckB(raw) == sendAckWithOp(0, guessOp(raw))

\* What the handler writes once runNow's blocking calls are behind it: runNow's
\* own line, if any, then the ACK (part_000:193).
RepliesB(c) == runNowBOut(c) \o <<sendAckWithOp(c.s, AckOp(c))>>

\* runNow (part_000:120-184) up to its first suspension, the echo written.
runNowB(raw, c) ==
    CASE c.o \in MoveOps ->
            /\ hOut' = <<EchoLine(raw)>> /\ hCalls' = <<>>
            /\ hpc' = "arrow"
            /\ \E d \in ShowDelays : hWake' = now + d
            /\ motors' = motors
      [] c.o = <<"S","P">> ->
            /\ hOut' = <<EchoLine(raw)>>
            /\ hCalls' = <<Call("motors", "", 0, 0), Call("stopcar", "", 0, 0)>>
            /\ motors' = Stopped
            /\ hpc' = "stopbrief"
            /\ \E d \in StopBriefDelays : hWake' = now + d
      [] c.o = <<"H","L">> ->
            /\ hCalls' = <<Call("colorLight", "", HlColor(c), 0)>>
            /\ hOut' = <<EchoLine(raw)>> \o RepliesB(c)
            /\ motors' = motors
            /\ Return
      [] c.o = <<"B","Z">> ->
            /\ hOut' = <<EchoLine(raw)>>
            /\ hCalls' = <<Call("playTone", "", BzFreq(c), BzDur(c))>>
            /\ motors' = motors
            /\ hpc' = "tone"
            /\ hWake' = now + BzDur(c)
      [] OTHER ->
            /\ hOut' = <<EchoLine(raw)>> \o RepliesB(c)
            /\ hCalls' = <<>>
            /\ motors' = motors
            /\ Return

\* bluetooth.onUartDataReceived (part_000:187-194), up to the first suspension.
\* No frame is read once the clock has reached MaxTime.
OnUartB(raw) ==
    /\ profile = "B"
    /\ hpc = "idle"
    /\ now < MaxTime
    /\ frame' = raw
    /\ LET c == parseLineB(raw)
       IN  /\ cmd' = c
           /\ IF ~c.ok
              THEN /\ hOut' = <<EchoLine(raw), ParseFailAckB(raw)>>
                   /\ hCalls' = <<>>
                   /\ motors' = motors
                   /\ Return
              ELSE runNowB(raw, c)
    /\ UNCHANGED <<now, env, tstate, timer, goPhase>>

\* showArrow returned: cuteBot.moveTime starts the motors and pauses for
\* cmd.b seconds.
ResumeArrowB ==
    /\ profile = "B" /\ hpc = "arrow" /\ now >= hWake
    /\ hCalls' = Append(hCalls, Call("moveTime", DirOf(cmd.o), cmd.a, cmd.b * 1000))
    /\ motors' = MoveMotors(DirOf(cmd.o), cmd.a)
    /\ hpc' = "moving"
    /\ hWake' = now + cmd.b * 1000
    /\ UNCHANGED <<now, env, tstate, frame, cmd, hOut, timer, goPhase>>

\* moveTime's pause ended: it stops the motors and returns; showWait suspends.
ResumeMovingB ==
    /\ profile = "B" /\ hpc = "moving" /\ now >= hWake
    /\ motors' = Stopped
    /\ hpc' = "waiticon"
    /\ \E d \in ShowDelays : hWake' = now + d
    /\ UNCHANGED <<now, env, tstate, frame, cmd, hOut, hCalls, timer, goPhase>>

\* showWait, showStopBrief or playTone returned: runNow writes its line, if any,
\* and returns, and the handler sends the ACK.
ResumeReplyB ==
    /\ profile = "B" /\ hpc \in {"waiticon", "stopbrief", "tone"} /\ now >= hWake
    /\ hOut' = hOut \o RepliesB(cmd)
    /\ Return
    /\ UNCHANGED <<now, env, tstate, frame, cmd, hCalls, motors, timer, goPhase>>

\* Time passes while the handler, Profile B's only fiber, is suspended.
AdvanceB ==
    /\ profile = "B"
    /\ hpc \notin {"idle", "done"} /\ hWake > now
    /\ now' = hWake
    /\ UNCHANGED <<env, hstate, tstate, motors, timer, goPhase>>

-----------------------------------------------------------------------------
(* Frames *)

\* The characters Profile B's exhaustive feed is made of.
Alphabet == {",", "M", "v", "0", " ", ";", "\t"}

\* Every text over Alphabet of length n.
RECURSIVE TextsOfLen(_)
TextsOfLen(n) ==
    IF n = 0 THEN {<<>>}
    ELSE {Append(t, ch) : t \in TextsOfLen(n - 1), ch \in Alphabet}

ShortFrames == UNION {TextsOfLen(n) : n \in 0..MaxFrameLen}

\* Whole requests, as uartReadUntil(";") returns them (both profiles).
Requests ==
    { <<"0","1",",","M","V",",","3","2",",","3","2">>,
      <<"0","2",",","B","K",",","0","0",",","6","4">>,
      <<"0","3",",","t","l",",","F","F",",","3","2">>,
      <<"0","5",",","S","P",",","0","0",",","0","0">>,
      <<"0","7",",","H","L",",","1","0",",","2","0",",","F","F">>,
      <<"0","8",",","B","Z",",","0","1",",","B","8",",","0","5">>,
      <<"0","A",",","E","C">>,
      <<"0","0",",","Z","Z",",","0","0",",","0","0">>,
      <<"f","f",",","g","o","x">>,
      <<"0","5",",">>,
      <<"0","5">>,
      <<" ">>,
      <<>> }

\* GO requests (Profile C).
GoRequests ==
    { <<"0","7",",","G","O",",","6","4",",","3","2">>,
      <<"0","B",",","G","O",",","F","F",",","9","6">>,
      <<"0","C",",","G","O",",","0","0",",","3","2">>,
      <<"0","D",",","G","O",",","3","2",",","0","0">>,
      <<"0","E",",","G","O">> }

\* BZ requests over the values of each argument where the tone changes its
\* form: the frequency below, at and above its two limits, the duration absent,
\* zero, least and greatest.
BzHigh == { <<"0","0">>, <<"0","1">>, <<"1","3">>, <<"1","4">>, <<"F","F">> }
BzLow == { <<"0","0">>, <<"6","3">>, <<"6","4">>, <<"6","5">>, <<"8","7">>,
           <<"8","8">>, <<"8","9">>, <<"f","f">> }
BzLength == { <<>>, <<",","0","0">>, <<",","0","1">>, <<",","0","5">>, <<",","F","F">> }
BzRequests ==
    { <<"0","8",",","B","Z",",">> \o hi \o <<",">> \o lo \o len :
          hi \in BzHigh, lo \in BzLow, len \in BzLength }

FramesC == Requests \cup GoRequests
FramesB == Requests \cup GoRequests \cup ShortFrames

-----------------------------------------------------------------------------
(* The system *)

\* Nothing handed to the hex helpers; a dispatcher that was never used.
NoHex == [kind |-> "none", v |-> 0, t |-> <<>>]
NoEntry == [id |-> 0, s |-> 0]
NoDispatcher == [queue |-> <<>>, busy |-> FALSE, running |-> NoEntry]
NoAudit == [next |-> 1, ran |-> {}, refused |-> {}, reply |-> <<>>, replyTo |-> NoEntry]

\* The device when its top-level code has registered the handler and the poll
\* and has just called showWait() (main.ts:298): the startup sequence of
\* Profile C is suspended in it.  Profile B's (part_000:197) writes nothing.
Boot ==
    /\ profile \in {"B", "C"}
    /\ now = 0
    /\ pinR \in {0, 1} /\ pinL \in {0, 1}
    /\ profile = "B" => (pinR = 1 /\ pinL = 1)
    /\ frame = <<>> /\ cmd = Null
    /\ hpc = "idle" /\ hWake = 0
    /\ hOut = <<>> /\ hCalls = <<>>
    /\ tpc = "sleep" /\ tWake = TICK_MS /\ tOut = <<>>
    /\ mpc = IF profile = "C" THEN "showwait" ELSE "ended"
    /\ mWake \in ShowDelays
    /\ profile = "B" => mWake = 0
    /\ bootOut = <<>>
    /\ motors = Stopped
    /\ goTimerActive = FALSE /\ goEndTime = 0
    /\ goPhase = "none"

Init ==
    /\ Boot
    /\ hexIn = NoHex /\ hexOut = NoHex
    /\ disp = NoDispatcher /\ audit = NoAudit

Next ==
    \/ \E raw \in FramesC : OnUartC(raw)
    \/ ResumeArrow
    \/ ResumeMoving
    \/ ResumeWaitIcon
    \/ ResumeStopBrief
    \/ ResumeGoArrow
    \/ ResumeTone
    \/ HandlerExit
    \/ TickPoll
    \/ TickResume
    \/ Advance
    \/ BootResume
    \/ MainExit
    \/ SensorChange
    \/ \E raw \in FramesB : OnUartB(raw)
    \/ ResumeArrowB
    \/ ResumeMovingB
    \/ ResumeReplyB
    \/ AdvanceB

Spec == Init /\ [][Next]_vars

\* The two programs fed BZ requests only.
NextBz ==
    \/ \E raw \in BzRequests : OnUartC(raw)
    \/ ResumeTone
    \/ HandlerExit
    \/ TickPoll
    \/ Advance
    \/ BootResume
    \/ MainExit
    \/ \E raw \in BzRequests : OnUartB(raw)
    \/ ResumeReplyB
    \/ AdvanceB

SpecBz == Init /\ [][NextBz]_vars

-----------------------------------------------------------------------------
(* The hex helpers on their own: hex2 (part_000:45-49) and parseHexByte      *)
(* (main.ts:111-124, part_000:50-63, the same text in both files).            *)

\* Digits, letters on both sides of the hex range in both cases, the characters
\* next to '0', '9' and 'A' in code order, and white space.
HexAlphabet == {"0", "9", "A", "F", "G", "a", "f", "g", "/", ":", "@", " ", "\t"}

RECURSIVE TextsOver(_, _)
TextsOver(alphabet, n) ==
    IF n = 0 THEN {<<>>}
    ELSE {Append(t, ch) : t \in TextsOver(alphabet, n - 1), ch \in alphabet}

HexTexts == UNION {TextsOver(HexAlphabet, n) : n \in 0..MaxArgLen}

\* A byte for hex2 (Profile B only has hex2), or a text for parseHexByte.
HexInputs ==
    {[kind |-> "byte", v |-> v, t |-> <<>>] : v \in 0..255}
        \cup {[kind |-> "text", v |-> 0, t |-> t] : t \in HexTexts}

InitHex ==
    /\ Boot
    /\ hexIn \in HexInputs
    /\ hexIn.kind = "byte" => profile = "B"
    /\ hexOut = NoHex
    /\ disp = NoDispatcher /\ audit = NoAudit

\* hex2(v), then parseHexByte of what it returned.
EncodeDecode ==
    /\ hexIn.kind = "byte" /\ hexOut = NoHex
    /\ hexOut' = [kind |-> "byte", t |-> hex2(hexIn.v),
                   v |-> parseHexByte(hex2(hexIn.v))]
    /\ UNCHANGED <<now, profile, pinR, pinL, mstate, hexIn, disp, audit,
                   hstate, tstate, motors, timer, goPhase>>

\* parseHexByte(t).
Decode ==
    /\ hexIn.kind = "text" /\ hexOut = NoHex
    /\ hexOut' = [kind |-> "text", t |-> hexIn.t, v |-> parseHexByte(hexIn.t)]
    /\ UNCHANGED <<now, profile, pinR, pinL, mstate, hexIn, disp, audit,
                   hstate, tstate, motors, timer, goPhase>>

NextHex == EncodeDecode \/ Decode

SpecHex == InitHex /\ [][NextHex]_vars

-----------------------------------------------------------------------------
(* Queued dispatch (Profile A).  The variant of the program that queues its   *)
(* commands is not among the source files; the dispatcher below is the one    *)
(* sections 3, 4.3 and 6 of the specification describe.  A command is known   *)
(* here by its sequence number s and by id, the order of its submission.      *)

QUEUE_CAP == 6      \* "queue has fixed capacity (e.g. 6)"

\* ":SEQ,BUSY\n" and ":SEQ,ACK\n".
BusyLine(seq) == <<":">> \o hex2(seq) \o <<",","B","U","S","Y">> \o NL
AckLineA(seq) == <<":">> \o hex2(seq) \o <<",","A","C","K">> \o NL

\* The sequence numbers submitted.
SubmitSeqs == {10, 255}

\* The queue test as it would read with ">" for ">=".
QueueFullOffByOne(q) == Len(q) > QUEUE_CAP

\* "if queue full".
QueueFull(q) == Len(q) >= QUEUE_CAP

\* The pump step: if not busy and the queue is not empty, pop the oldest entry,
\* mark busy and invoke the executor on it.
Pump(d) ==
    IF ~d.busy /\ d.queue # <<>>
    THEN [queue |-> Tail(d.queue), busy |-> TRUE, running |-> Head(d.queue)]
    ELSE d

\* The ids of the commands the executor has been invoked on, after a pump.
Ran(d) == IF d.busy THEN audit.ran \cup {d.running.id} ELSE audit.ran

\* submit(cmd): if the queue is full, reply Busy(cmd.seq) and drop; else
\* enqueue, and pump.
Submit(s) ==
    /\ profile = "A"
    /\ audit.next <= MaxSubmit
    /\ LET e == [id |-> audit.next, s |-> s]
           d == Pump([disp EXCEPT !.queue = Append(disp.queue, e)])
       IN  IF QueueFull(disp.queue)
           THEN /\ disp' = disp
                /\ audit' = [audit EXCEPT !.next = audit.next + 1,
                                           !.refused = audit.refused \cup {e.id},
                                           !.reply = BusyLine(e.s),
                                           !.replyTo = e]
           ELSE /\ disp' = d
                /\ audit' = [audit EXCEPT !.next = audit.next + 1, !.ran = Ran(d)]
    /\ UNCHANGED <<now, profile, pinR, pinL, mstate, hexIn, hexOut,
                   hstate, tstate, motors, timer, goPhase>>

\* The executor's completion continuation: reply Ack, clear busy, pump again.
Complete ==
    /\ profile = "A"
    /\ disp.busy
    /\ LET d == Pump([disp EXCEPT !.busy = FALSE, !.running = NoEntry])
       IN  /\ disp' = d
           /\ audit' = [audit EXCEPT !.ran = Ran(d),
                                      !.reply = AckLineA(disp.running.s),
                                      !.replyTo = disp.running]
    /\ UNCHANGED <<now, profile, pinR, pinL, mstate, hexIn, hexOut,
                   hstate, tstate, motors, timer, goPhase>>

InitQueued ==
    /\ profile = "A"
    /\ now = 0
    /\ pinR = 1 /\ pinL = 1
    /\ frame = <<>> /\ cmd = Null
    /\ hpc = "idle" /\ hWake = 0
    /\ hOut = <<>> /\ hCalls = <<>>
    /\ tpc = "sleep" /\ tWake = TICK_MS /\ tOut = <<>>
    /\ mpc = "ended" /\ mWake = 0
    /\ bootOut = <<>>
    /\ motors = Stopped
    /\ goTimerActive = FALSE /\ goEndTime = 0
    /\ goPhase = "none"
    /\ hexIn = NoHex /\ hexOut = NoHex
    /\ disp = NoDispatcher /\ audit = NoAudit

NextQueued ==
    \/ \E s \in SubmitSeqs : Submit(s)
    \/ Complete

SpecQueued == InitQueued /\ [][NextQueued]_vars

-----------------------------------------------------------------------------
(* Properties *)

GO == <<"G","O">>
SP == <<"S","P">>

\* A call that commands the drive motors to move.
IsRun(call) ==
    \/ call.fn = "motors" /\ (call.x # 0 \/ call.y # 0)
    \/ call.fn = "moveTime" /\ call.x # 0

\* The command being executed is a GO with a zero speed or a zero duration.
ZeroArgGo == profile = "C" /\ cmd.ok /\ cmd.o = GO /\ (cmd.a = 0 \/ cmd.b = 0)

\* C1: in Profile C a GO with arg1 = 0 or arg2 = 0 never starts motion: from its
\* first step on the motors are commanded to (0,0) and the GO timer is off, it
\* issues no motor command that moves, and it has sent exactly the one line
\* "#ERROR,GO_INVALID_ARGS\n" when it returns (and nothing before).
C1_ZeroArgGoNeverMoves ==
    ZeroArgGo =>
        /\ motors = Stopped
        /\ ~goTimerActive
        /\ \A i \in 1..Len(hCalls) : ~IsRun(hCalls[i])
        /\ \E i \in 1..Len(hCalls) : hCalls[i] = Call("motors", "", 0, 0)
        /\ hpc \in {"stopbrief", "done"}
        /\ hpc = "stopbrief" => hOut = <<>>
        /\ hpc = "done" => hOut = <<ErrorLine(GO_INVALID_ARGS)>>

\* C1 witness: a GO with a speed and a zero duration has returned, having
\* stopped the motors a running GO had started.
C1_Witness ==
    /\ ZeroArgGo /\ hpc = "done"
    /\ cmd.a # 0 /\ cmd.b = 0
    /\ goPhase = "stopped"

\* C2: in Profile C a started GO is stopped within one tick interval of its
\* commanded duration: while the motors still run on the latest GO's command,
\* the time is at most that GO's end time plus one tick interval.
C2_GoStopsWithinOneTick ==
    (profile = "C" /\ goPhase = "active") => now <= goEndTime + TICK_MS

\* An SP command is executing or has just returned.
InStop == profile = "C" /\ cmd.ok /\ cmd.o = SP /\ hpc \in {"stopbrief", "done"}

\* C3: in Profile C an SP clears the GO timer before its first suspension and the
\* timer stays clear while the SP runs; the poll never performs the expiry of a
\* GO that an SP cancelled, and a cancelled GO's timer stays clear.
C3_StopCancelsTimer ==
    /\ InStop => ~goTimerActive
    /\ goPhase # "cancelled_expired"
    /\ (profile = "C" /\ goPhase = "cancelled") => ~goTimerActive

\* C3 witness: a GO was cancelled by an SP, the SP has returned, the GO's end
\* time is more than a tick interval in the past, and the poll is asleep again.
C3_Witness ==
    /\ profile = "C" /\ goPhase = "cancelled"
    /\ hpc = "idle" /\ tpc = "sleep" /\ tWake > now
    /\ now > goEndTime + TICK_MS

\* C4: in Profile C goTimerActive implies that the motors are running.
C4_TimerActiveMotorsRunning ==
    (profile = "C" /\ goTimerActive) => motors # Stopped

\* C5: in Profile C no step of the GO-expiry action (hardStop, #TRK, clearing
\* the timer) is taken while a command is suspended in a blocking call of
\* runNow: cuteBot.moveTime, music.playTone, or the pause of showStopBrief.
C5_NoExpiryDuringCommand ==
    [][(profile = "C" /\ tpc' # tpc) => hpc \notin {"moving", "tone", "stopbrief"}]_vars

\* C6: every speed passed to cuteBot.moveTime or cuteBot.motors lies in 0..100.
C6_SpeedClamped ==
    \A i \in 1..Len(hCalls) :
        /\ hCalls[i].fn = "moveTime" => hCalls[i].x \in 0..100
        /\ hCalls[i].fn = "motors" => (hCalls[i].x \in 0..100 /\ hCalls[i].y \in 0..100)

\* The handler has read an empty frame and returned.
EmptyFrameHandled == hpc = "done" /\ IsEmptyFrame(frame)

Ack00Unknown == <<";","0","0",",","A","C","K",",","?","?",";","\n">>

\* C7 as stated: in both profiles the handler of an empty frame sends no line
\* and makes no actuator call.
C7_EmptyFrameSilentBothProfiles ==
    EmptyFrameHandled => (hOut = <<>> /\ hCalls = <<>>)

\* C7 amended: the step that handles an empty frame returns at once; in Profile C
\* it sends no line, makes no actuator call and changes neither the motors, the
\* GO timer, the clock nor the poll; in Profile B it sends "#ECHO,<raw>\n" and
\* ";00,ACK,??;\n", makes no actuator call and leaves the motors alone.
C7_EmptyFrame ==
    [][(hpc = "idle" /\ hpc' # "idle" /\ IsEmptyFrame(frame')) =>
          /\ hpc' = "done"
          /\ hCalls' = <<>>
          /\ UNCHANGED <<motors, goTimerActive, goEndTime, now, tpc, tWake, tOut, bootOut>>
          /\ profile = "C" => hOut' = <<>>
          /\ profile = "B" => hOut' = <<EchoLine(frame'), Ack00Unknown>>
      ]_vars

\* C7 witness: Profile C has dropped a frame of white space while a GO runs.
C7_Witness ==
    /\ profile = "C" /\ EmptyFrameHandled
    /\ Len(frame) > 0
    /\ goTimerActive /\ motors # Stopped
    /\ hOut = <<>>

\* The fields of a frame and its opcode text, as section 4.2 of the
\* specification reads them.
FieldsOf(raw) == split(sanitize(raw))
OpTextOf(raw) == toUpperCase(trim(FieldsOf(raw)[2]))

\* A frame that is not empty and has fewer than two fields or an empty opcode.
Malformed(raw) ==
    /\ ~IsEmptyFrame(raw)
    /\ Len(FieldsOf(raw)) < 2 \/ OpTextOf(raw) = <<>>

\* C8: in Profile C the handler answers a malformed frame with exactly
\* "#ERROR,PARSE_FAIL\n" and no actuator call.
C8_MalformedIsParseFail ==
    (profile = "C" /\ hpc = "done" /\ Malformed(frame)) =>
        (hOut = <<ErrorLine(PARSE_FAIL)>> /\ hCalls = <<>>)

\* A well-formed frame whose opcode is none of Profile C's.
UnknownOpFrame(raw) ==
    /\ ~IsEmptyFrame(raw)
    /\ Len(FieldsOf(raw)) >= 2
    /\ OpTextOf(raw) # <<>>
    /\ OpTextOf(raw) \notin OpsC

\* C9: in Profile C the step that handles a well-formed frame with an unknown
\* opcode returns at once (the handler is free for the next frame), sends exactly
\* "#ERROR,UNKNOWN_OP_<op>\n" with <op> the upper-cased opcode text, makes no
\* actuator call and leaves the motors and the GO timer unchanged.
C9_UnknownOpcode ==
    [][(profile = "C" /\ hpc = "idle" /\ hpc' # "idle" /\ UnknownOpFrame(frame')) =>
          /\ hpc' = "done"
          /\ hOut' = <<ErrorLine(UNKNOWN_OP_ \o OpTextOf(frame'))>>
          /\ hCalls' = <<>>
          /\ UNCHANGED <<motors, goTimerActive, goEndTime>>
      ]_vars

\* C9 witness: an unknown opcode given in lower case was answered while a GO ran.
C9_Witness ==
    /\ profile = "C" /\ hpc = "done"
    /\ UnknownOpFrame(frame)
    /\ OpTextOf(frame) = <<"G","O","X">>
    /\ hOut = <<ErrorLine(UNKNOWN_OP_ \o <<"G","O","X">>)>>
    /\ goTimerActive /\ motors # Stopped

\* C10: in Profile B, whenever parseLine rejects the frame, the handler sends the
\* echo and then exactly ";00,ACK,??;\n", and runNow is not invoked.
C10_ParseFailAck ==
    (profile = "B" /\ hpc = "done" /\ ~cmd.ok) =>
        /\ hOut = <<EchoLine(frame), Ack00Unknown>>
        /\ hCalls = <<>>
        /\ guessOp(frame) = UnknownOp

\* C10 witness: a frame with two fields was rejected for its empty opcode.
C10_Witness ==
    /\ profile = "B" /\ hpc = "done" /\ ~cmd.ok
    /\ Len(sanitize(frame)) >= 2
    /\ Len(FieldsOf(frame)) >= 2
    /\ hOut = <<EchoLine(frame), Ack00Unknown>>

\* The kind of a line of Profile B.
IsEcho(line) == Len(line) >= 6 /\ SubSeq(line, 1, 6) = <<"#","E","C","H","O",",">>
IsAck(line) == Len(line) >= 8 /\ line[1] = ";" /\ SubSeq(line, 4, 8) = <<",","A","C","K",",">>

\* Field 0 of the frame is two hex digits.
TwoDigitSeq(raw) ==
    /\ Len(FieldsOf(raw)[1]) = 2
    /\ \A i \in 1..2 : hexDigit(upperChar(FieldsOf(raw)[1][i])) >= 0

\* C11: in Profile B a frame is read only when no handler invocation is under
\* way and its "#ECHO,<raw>\n" is written first; while runNow is suspended the
\* echo is all that is written; the rest of the frame's lines is written when
\* the handler returns, before any other frame is read; by then the echo is the
\* first line and the only echo, there is one ACK line and it is the last,
\* and for a parsed command the ACK is ";<seq>,ACK,<op>;\n" with <seq> the
\* command's sequence number in two upper-case hex digits (the digits of field 0
\* when that is two hex digits) and <op> the upper-cased opcode text.
C11_EchoFirstAckLast ==
    [][profile = "B" =>
          /\ (hOut = <<>> /\ hOut' # <<>>) =>
                (hpc = "idle" /\ hOut'[1] = EchoLine(frame'))
          /\ (hOut # <<>> /\ hOut' # hOut) =>
                \/ hpc = "done" /\ hpc' = "idle" /\ hOut' = <<>>
                \/ /\ hpc' = "done" /\ frame' = frame /\ cmd' = cmd
                   /\ Len(hOut') > Len(hOut)
                   /\ SubSeq(hOut', 1, Len(hOut)) = hOut
          /\ hpc' \notin {"idle", "done"} => hOut' = <<EchoLine(frame')>>
          /\ hpc' = "done" =>
                /\ Len(hOut') >= 2
                /\ hOut'[1] = EchoLine(frame')
                /\ \A i \in 2..Len(hOut') : ~IsEcho(hOut'[i])
                /\ IsAck(hOut'[Len(hOut')])
                /\ \A i \in 1..(Len(hOut') - 1) : ~IsAck(hOut'[i])
                /\ cmd'.ok =>
                      /\ cmd'.s \in 0..255
                      /\ hOut'[Len(hOut')] =
                            <<";">> \o hex2(cmd'.s) \o <<",","A","C","K",",">>
                                \o OpTextOf(frame') \o <<";">> \o NL
                      /\ TwoDigitSeq(frame') =>
                            SubSeq(hOut'[Len(hOut')], 2, 3)
                                = toUpperCase(FieldsOf(frame')[1])
      ]_vars

\* C11 witness: an MV command has returned after its 50 seconds of motion, and
\* its ACK follows its echo.
C11_Witness ==
    /\ profile = "B" /\ hpc = "done" /\ cmd.ok
    /\ cmd.o = <<"M","V">> /\ now >= 50000
    /\ Len(hOut) = 2
    /\ hOut[2] = <<";","0","1",",","A","C","K",",","M","V",";","\n">>

\* The lines Profile C may write.
IsTrk(line) == \E n \in 0..3 : line = TrkLine(n)
IsErrorOf(line, raw) ==
    \/ line = ErrorLine(PARSE_FAIL)
    \/ line = ErrorLine(GO_INVALID_ARGS)
    \/ /\ line = ErrorLine(UNKNOWN_OP_ \o OpTextOf(raw))
       /\ OpTextOf(raw) \notin OpsC

\* C12: in Profile C every line written by the startup sequence, the handler
\* or the poll is "#TRK,<n>\n" with n in 0..3 or "#ERROR,<code>\n" with
\* <code> PARSE_FAIL, GO_INVALID_ARGS or UNKNOWN_OP_<op>, <op> being the
\* upper-cased opcode text of the frame; the startup sequence and the poll
\* write #TRK lines only.
C12_OnlyTrkAndError ==
    profile = "C" =>
        /\ \A i \in 1..Len(bootOut) : IsTrk(bootOut[i])
        /\ \A i \in 1..Len(tOut) : IsTrk(tOut[i])
        /\ \A i \in 1..Len(hOut) : IsTrk(hOut[i]) \/ IsErrorOf(hOut[i], frame)

\* C12 witness: the poll has reported a GO's expiry and the handler has
\* answered an unknown opcode.
C12_Witness ==
    /\ profile = "C" /\ hpc = "done"
    /\ tOut # <<>>
    /\ hOut = <<ErrorLine(UNKNOWN_OP_ \o <<"Z","Z">>)>>

\* The command being executed.
Running(ops) == profile = "C" /\ cmd.ok /\ cmd.o \in ops

\* The #TRK line for the sensors as they stand.
TrkNow == TrkLine(readTracking(pinR, pinL))

\* The lines of C13, command by command: an MV, BK, TL, TR or SP command has
\* written nothing until its actuator call has returned and exactly one #TRK
\* when it returns; a valid GO, an HL, a BZ and an EC write no line; the expiry
\* of a GO writes nothing while it stops the motors and one #TRK in all; the
\* startup sequence writes one #TRK.
TrackingLines ==
    profile = "C" =>
        /\ Running(MoveOps \cup {SP}) =>
              /\ hpc # "done" => hOut = <<>>
              /\ hpc = "done" => (Len(hOut) = 1 /\ IsTrk(hOut[1]) /\ hCalls # <<>>)
        /\ (Running({GO}) /\ cmd.a # 0 /\ cmd.b # 0) => hOut = <<>>
        /\ Running({ <<"H","L">>, <<"B","Z">>, <<"E","C">> }) => hOut = <<>>
        /\ tpc = "stopbrief" => tOut = <<>>
        /\ Len(tOut) <= 1 /\ \A i \in 1..Len(tOut) : IsTrk(tOut[i])
        /\ mpc = "showwait" => bootOut = <<>>
        /\ mpc = "done" => (Len(bootOut) = 1 /\ IsTrk(bootOut[1]))

\* Until the startup sequence has written its #TRK, no other line is written.
TrkComesFirst ==
    (profile = "C" /\ mpc = "showwait") =>
        /\ \A i \in 1..Len(hOut) : IsTrk(hOut[i])
        /\ \A i \in 1..Len(tOut) : IsTrk(tOut[i])

\* Each #TRK reports the sensors as they are when it is written.
TrackingIsCurrent ==
    /\ (Running(MoveOps \cup {SP})' /\ hpc' = "done" /\ hpc # "done") => hOut' = <<TrkNow>>
    /\ (tpc = "stopbrief" /\ tpc' = "sleep") => tOut' = <<TrkNow>>
    /\ (mpc = "showwait" /\ mpc' = "done") => bootOut' = <<TrkNow>>

\* C13 as stated: in Profile C the first line sent is the #TRK of the startup
\* sequence, and the commands and the GO expiry write their lines as above.
C13_TrkFirstThenPerCommand == TrackingLines /\ TrkComesFirst

\* C13 amended: as above, but the startup #TRK is written when the startup
\* showWait returns and need not be the first line sent.
C13_TrackingReports == []TrackingLines /\ [][profile = "C" => TrackingIsCurrent]_vars

\* C13 witness: a GO has expired and been reported by the poll, the robot has
\* moved since, and a later BK has returned with its own #TRK.
C13_Witness ==
    /\ Running({ <<"B","K">> }) /\ hpc = "done"
    /\ goPhase = "expired" /\ tpc = "sleep" /\ mpc = "ended"
    /\ tOut = <<TrkLine(1)>> /\ hOut = <<TrkLine(2)>>

\* A step of the handler fiber and a step of the poll fiber.
HandlerStep == hstate' # hstate
PollStep == tstate' # tstate

\* The steps that may write the GO timer: a valid GO starting its motors, the
\* hardStop of an SP, the poll's expiry (hardStop, then the clearing).
GoStartStep == HandlerStep /\ hpc = "goarrow" /\ cmd.o = GO
StopStep == HandlerStep /\ hpc = "idle" /\ cmd'.ok /\ cmd'.o = SP
ExpiryStep == PollStep /\ (tpc = "stopbrief" \/ (tpc = "sleep" /\ Expired))
\* ... and the hardStop of a GO with a zero argument.
GoRejectStep == HandlerStep /\ hpc = "idle" /\ cmd'.ok /\ cmd'.o = GO /\ GoInvalid(cmd')

\* C14 as stated: in Profile C only the start of a GO, an SP and the timer's
\* expiry change goTimerActive or goEndTime.
C14_TimerWrittenByGoSpExpiry ==
    [][(profile = "C" /\ timer' # timer) =>
          (GoStartStep \/ StopStep \/ ExpiryStep)]_vars

\* C14 amended: in Profile C only the start of a GO, the hard stop of a GO with a
\* zero argument, an SP and the timer's expiry change goTimerActive or
\* goEndTime; no step of an MV, BK, TL, TR, HL, BZ or EC command, of an unknown
\* opcode or of a parse failure changes them.
C14_TimerFrame ==
    [][(profile = "C" /\ timer' # timer) =>
          /\ GoStartStep \/ GoRejectStep \/ StopStep \/ ExpiryStep
          /\ HandlerStep => (cmd'.ok /\ cmd'.o \in {GO, SP})
      ]_vars

\* C14 witness: a BK command has run to its end while a GO's timer was armed,
\* and the timer is as the GO left it.
C14_Witness ==
    /\ Running({ <<"B","K">> }) /\ hpc = "done"
    /\ goTimerActive /\ goEndTime > now
    /\ hCalls # <<>>

\* The speed a command hands to cuteBot.moveTime for a backward move.
BackwardSpeeds == {hCalls[i].x : i \in {j \in 1..Len(hCalls) :
                      hCalls[j].fn = "moveTime" /\ hCalls[j].dir = "backward"}}

\* C15: in both profiles a BK command with arg1 = 0 drives backward at the
\* default speed 50, and with arg1 > 0 at arg1: the speed passed to the backward
\* move is never 0.
C15_BackwardDefaultSpeed ==
    (cmd.ok /\ cmd.o = <<"B","K">>) =>
        \A v \in BackwardSpeeds : v = (IF cmd.a > 0 THEN cmd.a ELSE 50)

\* The kind of a reply line of Profile B.
IsErr(line) == Len(line) >= 8 /\ line[1] = ";" /\ SubSeq(line, 4, 8) = <<",","E","R","R",",">>

\* C19: in Profile B a command handed to runNow is answered by exactly one
\* reply, an ACK or an ERR: a command with an unknown opcode gets the reply
\* ";<seq>,ERR,01;\n" with its own sequence number and no ACK, any other
\* command gets one ACK and no ERR.
C19_AckOrErrNeverBoth ==
    (profile = "B" /\ hpc = "done" /\ cmd.ok) =>
        LET acks == {i \in 1..Len(hOut) : IsAck(hOut[i])}
            errs == {i \in 1..Len(hOut) : IsErr(hOut[i])}
        IN  /\ Cardinality(acks) + Cardinality(errs) = 1
            /\ cmd.o \notin OpsB =>
                  (acks = {} /\ \E i \in errs : hOut[i] = sendErr(cmd.s, ERR_UNKNOWN))
            /\ cmd.o \in OpsB => errs = {}

\* C20: in Profile C, whenever the motors run on the command of a valid GO that
\* no later motor command has replaced, goTimerActive is true.
C20_RunningGoHasTimer ==
    (profile = "C" /\ goPhase = "active") => goTimerActive

Max(a, b) == IF a >= b THEN a ELSE b

\* The tones a command has played.
Tones == {i \in 1..Len(hCalls) : hCalls[i].fn = "playTone"}

\* C16: in both profiles a BZ command with arguments arg1, arg2, arg3 in 0..255
\* plays exactly one tone, of frequency min(5000, max(100, arg1 * 256 + arg2))
\* and of duration arg3 * 10 ms, or 100 ms when arg3 = 0; the frequency lies in
\* 100..5000 and the duration in 10..2550.
C16_BuzzerTone ==
    (cmd.ok /\ cmd.o = <<"B","Z">>) =>
        /\ cmd.a \in 0..255 /\ cmd.b \in 0..255 /\ cmd.c \in 0..255
        /\ Tones = {1}
        /\ hCalls[1].x = Min(5000, Max(100, cmd.a * 256 + cmd.b))
        /\ hCalls[1].y = (IF cmd.c = 0 THEN 100 ELSE cmd.c * 10)
        /\ hCalls[1].x \in 100..5000
        /\ hCalls[1].y \in 10..2550

\* C16 witness: a BZ with a frequency above the upper limit and no duration
\* has played 5000 Hz for 100 ms.
C16_Witness ==
    /\ cmd.ok /\ cmd.o = <<"B","Z">> /\ hpc = "done"
    /\ cmd.a * 256 + cmd.b > 5000 /\ cmd.c = 0
    /\ hCalls = <<Call("playTone", "", 5000, 100)>>

\* The number a text of hex digits denotes.
RECURSIVE HexValue(_)
HexValue(digits) ==
    IF digits = <<>> THEN 0
    ELSE 16 * HexValue(SubSeq(digits, 1, Len(digits) - 1))
             + hexDigit(digits[Len(digits)])

\* The longest prefix of hex digits of the first two characters of the trimmed,
\* upper-cased text.
HexPrefix(text) ==
    LET t   == toUpperCase(trim(text))
        two == SubSeq(t, 1, Min(2, Len(t)))
        ok  == {n \in 0..Len(two) : \A i \in 1..n : hexDigit(two[i]) >= 0}
    IN  SubSeq(two, 1, CHOOSE n \in ok : \A m \in ok : m <= n)

\* C17: for every byte v, parseHexByte(hex2(v)) = v, and hex2(v) is two
\* characters; for every text, parseHexByte returns a value in 0..255, the
\* number denoted by the longest all-hex prefix of the first two characters of
\* the trimmed, upper-cased text (0 when that prefix is empty).
C17_HexRoundTrip ==
    /\ hexOut.kind = "byte" => (hexOut.v = hexIn.v /\ Len(hexOut.t) = 2)
    /\ hexOut.kind = "text" =>
          /\ hexOut.v \in 0..255
          /\ hexOut.v = HexValue(HexPrefix(hexIn.t))

\* C17 witness: the byte 0xAB was encoded as "AB" and decoded to itself.
C17_Witness ==
    /\ hexOut.kind = "byte" /\ hexIn.v = 171
    /\ hexOut.t = <<"A","B">> /\ hexOut.v = 171

\* The ids of the commands waiting in the queue or executing.
Held(d) == {d.queue[i].id : i \in 1..Len(d.queue)}
               \cup (IF d.busy THEN {d.running.id} ELSE {})

\* A command is submitted while another executes and the queue is full.
SubmitWhenFull ==
    /\ audit'.next = audit.next + 1
    /\ disp.busy /\ Len(disp.queue) = QUEUE_CAP

\* C18: under queued dispatch the queue never holds more than QUEUE_CAP
\* commands; a command submitted while another executes and the queue is full
\* leaves the queue as it was and is answered ":<seq>,BUSY\n" with its own
\* sequence number; a command so refused is neither queued nor executing, and
\* the executor is never invoked on it.
C18_QueueBoundedBusyReply ==
    [][profile = "A" =>
          /\ Len(disp'.queue) <= QUEUE_CAP
          /\ audit'.refused \cap (Held(disp') \cup audit'.ran) = {}
          /\ SubmitWhenFull =>
                /\ disp' = disp
                /\ audit.next \in audit'.refused
                /\ audit'.replyTo.id = audit.next
                /\ \E s \in SubmitSeqs :
                      /\ audit'.replyTo.s = s
                      /\ audit'.reply = <<":">> \o hex2(s) \o <<",","B","U","S","Y","\n">>
          /\ (audit'.next = audit.next + 1 /\ ~SubmitWhenFull) =>
                audit.next \in Held(disp')
      ]_vars

\* C18 witness: the eighth command, numbered 0x0A, found one command executing
\* and six queued and was answered ":0A,BUSY\n"; the queue has drained since,
\* a ninth command has been accepted and executed, and the eighth never ran.
C18_Witness ==
    /\ profile = "A"
    /\ audit.refused = {QUEUE_CAP + 2}
    /\ audit.ran = (1..(QUEUE_CAP + 3)) \ {QUEUE_CAP + 2}
    /\ ~disp.busy /\ disp.queue = <<>>
    /\ audit.reply = <<":","F","F",",","A","C","K","\n">>

=============================================================================
